---------------------------- MODULE Spec2Model ----------------------------
(***************************************************************************)
(* Model of the bolt AST node classes (bolt/ast.py).                       *)
(*                                                                         *)
(* Every class of the module is a frozen dataclass.  The model holds the   *)
(* class table (base class, declared fields, field defaults, class-level   *)
(* attributes) and the operations the dataclass decorator generates for    *)
(* such a class: __init__ (Construct), __setattr__ (SetAttr) and __eq__    *)
(* (NodeEq).  Attributes inherited from the mecha base classes (location,  *)
(* end_location, AstRoot.commands) are outside ast.py and are not          *)
(* modelled; the one exception is AstLiteral.value, which the two literal  *)
(* classes carry and which is always supplied.                             *)
(***************************************************************************)
EXTENDS Integers, Sequences, FiniteSets, TLC

VARIABLES
    node,       \* the node returned by the latest construction, or None
    built,      \* the value of that node at the time it was constructed
    supplied,   \* the class and keyword arguments of the latest construction
    other,      \* a second, independently constructed node, or None
    last,       \* outcome of the latest operation
    tree,       \* children of a root under resolution of deferred regions
    handed,     \* per token stream: how many times it was handed to the parser
    resolvedBy, \* per token stream: the consumers that resolved it
    deferred    \* every AstDeferredRoot constructed so far, as constructed

vars == <<node, built, supplied, other, last, tree, handed, resolvedBy, deferred>>

nodeVars == <<node, built, supplied, other, last>>
treeVars == <<tree, handed, resolvedBy, deferred>>

---------------------------------------------------------------------------
(* Bounds of the model *)

MaxSeqLen == 2      \* longest AstChildren sequence supplied to a constructor
MaxDeferred == 4    \* most deferred regions under one root

---------------------------------------------------------------------------
(* Values *)

None == [k |-> "none"]
Str(s) == [k |-> "str", s |-> s]
Num(i) == [k |-> "int", i |-> i]
Bool(b) == [k |-> "bool", b |-> b]
Stream(i) == [k |-> "stream", id |-> i]
Ext(n) == [k |-> "ext", name |-> n]
Children(s) == [k |-> "children", items |-> s]
Node(c, a) == [k |-> "node", cls |-> c, attrs |-> a]

\* the keyword argument that was not passed
Omitted == [k |-> "omitted"]
\* the default of a field declared with required_field()
Required == [k |-> "required_field"]

---------------------------------------------------------------------------
(* The class table *)

Classes ==
    { "AstModuleRoot", "AstExpression", "AstExpressionBinary",
      "AstExpressionUnary", "AstValue", "AstIdentifier", "AstFormatString",
      "AstTuple", "AstList", "AstDictItem", "AstDict", "AstSlice",
      "AstUnpack", "AstKeyword", "AstAttribute", "AstLookup", "AstCall",
      "AstTarget", "AstTargetIdentifier", "AstTargetUnpack",
      "AstTargetAttribute", "AstTargetItem", "AstAssignment", "AstDecorator",
      "AstFunctionSignature", "AstFunctionSignatureArgument",
      "AstDeferredRoot", "AstMacroLiteral", "AstMacroArgument",
      "AstMacroMatch", "AstMacroMatchLiteral", "AstMacroMatchArgument",
      "AstInterpolation", "AstImportedIdentifier" }

\* Base, had AstTarget been declared a subclass of AstExpression
BaseBugTargetIsExpression(c) ==
    CASE c = "AstModuleRoot" -> "AstRoot"
      [] c \in { "AstExpressionBinary", "AstExpressionUnary", "AstValue",
                 "AstIdentifier", "AstFormatString", "AstTuple", "AstList",
                 "AstDict", "AstAttribute", "AstLookup", "AstCall",
                 "AstTarget" } -> "AstExpression"
      [] c \in { "AstTargetIdentifier", "AstTargetUnpack",
                 "AstTargetAttribute", "AstTargetItem" } -> "AstTarget"
      [] c \in { "AstMacroLiteral", "AstMacroArgument" } -> "AstLiteral"
      [] c \in { "AstMacroMatchLiteral", "AstMacroMatchArgument" }
            -> "AstMacroMatch"
      [] OTHER -> "AstNode"

\* Base, had AstSlice been declared a subclass of AstExpression
BaseBugSliceIsExpression(c) ==
    CASE c = "AstModuleRoot" -> "AstRoot"
      [] c \in { "AstExpressionBinary", "AstExpressionUnary", "AstValue",
                 "AstIdentifier", "AstFormatString", "AstTuple", "AstList",
                 "AstDict", "AstAttribute", "AstLookup", "AstCall",
                 "AstSlice" } -> "AstExpression"
      [] c \in { "AstTargetIdentifier", "AstTargetUnpack",
                 "AstTargetAttribute", "AstTargetItem" } -> "AstTarget"
      [] c \in { "AstMacroLiteral", "AstMacroArgument" } -> "AstLiteral"
      [] c \in { "AstMacroMatchLiteral", "AstMacroMatchArgument" }
            -> "AstMacroMatch"
      [] OTHER -> "AstNode"

\* the base class named in each class statement
Base(c) ==
    CASE c = "AstModuleRoot" -> "AstRoot"
      [] c \in { "AstExpressionBinary", "AstExpressionUnary", "AstValue",
                 "AstIdentifier", "AstFormatString", "AstTuple", "AstList",
                 "AstDict", "AstAttribute", "AstLookup", "AstCall" }
            -> "AstExpression"
      [] c \in { "AstTargetIdentifier", "AstTargetUnpack",
                 "AstTargetAttribute", "AstTargetItem" } -> "AstTarget"
      [] c \in { "AstMacroLiteral", "AstMacroArgument" } -> "AstLiteral"
      [] c \in { "AstMacroMatchLiteral", "AstMacroMatchArgument" }
            -> "AstMacroMatch"
      [] OTHER -> "AstNode"

\* issubclass(c, b)
RECURSIVE IsSubclass(_, _)
IsSubclass(c, b) ==
    \/ c = b
    \/ c \in Classes /\ IsSubclass(Base(c), b)

\* Frozen, had AstTargetIdentifier been declared with a plain @dataclass
FrozenBugPlainDataclass(c) == c # "AstTargetIdentifier"

\* Frozen, had AstDeferredRoot been declared with a plain @dataclass
FrozenBugDeferredMutable(c) == c # "AstDeferredRoot"

\* frozen=True in the decorator of the class
Frozen(c) == TRUE

\* a declared type: Optional[...] or not, AstChildren[...] or not, and the
\* set of admitted types
T(of) == [opt |-> FALSE, many |-> FALSE, of |-> of]
Opt(of) == [opt |-> TRUE, many |-> FALSE, of |-> of]
Many(of) == [opt |-> FALSE, many |-> TRUE, of |-> of]

F(name, default, type) == [name |-> name, default |-> default, type |-> type]

TStr == T({"str"})
TExpr == T({"AstExpression"})

\* the fields each class statement declares, in declaration order: name,
\* default (Required for required_field()) and annotation
OwnFields(c) ==
    CASE c = "AstExpressionBinary" ->
            << F("operator", Required, TStr), F("left", Required, TExpr),
               F("right", Required, TExpr) >>
      [] c = "AstExpressionUnary" ->
            << F("operator", Required, TStr), F("value", Required, TExpr) >>
      [] c = "AstValue" -> << F("value", Required, T({"Any"})) >>
      [] c = "AstIdentifier" -> << F("value", Required, TStr) >>
      [] c = "AstFormatString" ->
            << F("fmt", Required, TStr),
               F("values", Required, Many({"AstExpression"})) >>
      [] c = "AstTuple" -> << F("items", Required, Many({"AstExpression"})) >>
      [] c = "AstList" -> << F("items", Required, Many({"AstExpression"})) >>
      [] c = "AstDictItem" ->
            << F("key", Required, TExpr), F("value", Required, TExpr) >>
      [] c = "AstDict" -> << F("items", Required, Many({"AstDictItem"})) >>
      [] c = "AstSlice" ->
            << F("start", None, Opt({"AstExpression"})),
               F("stop", None, Opt({"AstExpression"})),
               F("step", None, Opt({"AstExpression"})) >>
      [] c = "AstUnpack" ->
            << F("type", Required, TStr), F("value", Required, TExpr) >>
      [] c = "AstKeyword" ->
            << F("name", Required, TStr), F("value", Required, TExpr) >>
      [] c = "AstAttribute" ->
            << F("name", Required, TStr), F("value", Required, TExpr) >>
      [] c = "AstLookup" ->
            << F("value", Required, TExpr),
               F("arguments", Required,
                 Many({"AstExpression", "AstSlice"})) >>
      [] c = "AstCall" ->
            << F("value", Required, TExpr),
               F("arguments", Required,
                 Many({"AstExpression", "AstUnpack", "AstKeyword"})) >>
      [] c = "AstTargetIdentifier" ->
            << F("value", Required, TStr),
               F("rebind", Bool(FALSE), T({"bool"})) >>
      [] c = "AstTargetUnpack" ->
            << F("targets", Required, Many({"AstTarget"})) >>
      [] c = "AstTargetAttribute" ->
            << F("name", Required, TStr), F("value", Required, TExpr) >>
      [] c = "AstTargetItem" ->
            << F("value", Required, TExpr),
               F("arguments", Required,
                 Many({"AstExpression", "AstSlice"})) >>
      [] c = "AstAssignment" ->
            << F("operator", Required, TStr),
               F("target", Required, T({"AstTarget"})),
               F("value", Required, TExpr) >>
      [] c = "AstDecorator" -> << F("expression", Required, TExpr) >>
      [] c = "AstFunctionSignatureArgument" ->
            << F("name", Required, TStr),
               F("default", None, Opt({"AstExpression"})) >>
      [] c = "AstFunctionSignature" ->
            << F("decorators", Children(<<>>), Many({"AstDecorator"})),
               F("name", Required, TStr),
               F("arguments", Required,
                 Many({"AstFunctionSignatureArgument"})) >>
      [] c = "AstDeferredRoot" ->
            << F("stream", Required, T({"TokenStream"})) >>
      [] c = "AstMacroMatchLiteral" ->
            << F("match", Required, T({"AstMacroLiteral"})) >>
      [] c = "AstMacroMatchArgument" ->
            << F("match_identifier", Required, T({"AstMacroArgument"})),
               F("match_argument_parser", Required,
                 T({"AstResourceLocation"})),
               F("match_argument_properties", None, Opt({"AstJson"})) >>
      [] c = "AstInterpolation" ->
            << F("prefix", None, Opt({"str"})),
               F("unpack", None, Opt({"str"})),
               F("converter", Required, TStr),
               F("value", Required, TExpr) >>
      [] c = "AstImportedIdentifier" -> << F("value", Required, TStr) >>
      [] OTHER -> << >>

\* the field the two literal classes inherit from AstLiteral; the fields of
\* the other mecha bases are not part of the model
InheritedFields(c) ==
    IF c \in Classes /\ IsSubclass(c, "AstLiteral")
    THEN << F("value", Required, TStr) >>
    ELSE << >>

\* dataclasses.fields(c): inherited fields first, then the class's own
Fields(c) == InheritedFields(c) \o OwnFields(c)

FieldNames(c) == { Fields(c)[i].name : i \in 1..Len(Fields(c)) }

FieldIndex(c, name) ==
    CHOOSE i \in 1..Len(Fields(c)) : Fields(c)[i].name = name

\* getattr(n, name)
Attr(n, name) == n.attrs[FieldIndex(n.cls, name)]

\* ClassAttr, had regex been assigned in AstMacroLiteral
ClassAttrBugRegexOnLiteral(c, name) ==
    CASE c = "AstMacroLiteral" /\ name = "parser" -> Str("bolt_macro_literal")
      [] c = "AstMacroArgument" /\ name = "parser" ->
            Str("bolt_macro_argument")
      [] c = "AstMacroLiteral" /\ name = "regex" -> Str("IDENTIFIER_PATTERN")
      [] OTHER -> None

\* class-level attributes, which the dataclass decorator does not turn into
\* fields: they carry no annotation
ClassAttr(c, name) ==
    CASE c = "AstMacroLiteral" /\ name = "parser" -> Str("bolt_macro_literal")
      [] c = "AstMacroArgument" /\ name = "parser" ->
            Str("bolt_macro_argument")
      [] c = "AstMacroArgument" /\ name = "regex" -> Str("IDENTIFIER_PATTERN")
      [] OTHER -> None

---------------------------------------------------------------------------
(* The operations the dataclass decorator generates *)

\* InitField, had a required field been declared with a None default
InitFieldBugNoRaise(fld, arg) ==
    IF arg # Omitted THEN [ok |-> TRUE, v |-> arg]
    ELSE IF fld.default = Required THEN [ok |-> TRUE, v |-> None]
    ELSE [ok |-> TRUE, v |-> fld.default]

\* InitField, had every default been declared None
InitFieldBugNoneDefault(fld, arg) ==
    IF arg # Omitted THEN [ok |-> TRUE, v |-> arg]
    ELSE IF fld.default = Required THEN [ok |-> FALSE, v |-> None]
    ELSE [ok |-> TRUE, v |-> None]

\* InitField, had a sequence been stripped of a repeated leading element
InitFieldBugDedup(fld, arg) ==
    IF arg # Omitted
    THEN [ok |-> TRUE,
          v |-> IF arg.k = "children" /\ Len(arg.items) > 1
                   /\ arg.items[1] = arg.items[2]
                THEN Children(Tail(arg.items)) ELSE arg]
    ELSE IF fld.default = Required THEN [ok |-> FALSE, v |-> None]
    ELSE [ok |-> TRUE, v |-> fld.default]

\* __init__, one field: the argument if passed, else the field's default;
\* the default of a required_field() raises instead of yielding a value
InitField(fld, arg) ==
    IF arg # Omitted THEN [ok |-> TRUE, v |-> arg]
    ELSE IF fld.default = Required THEN [ok |-> FALSE, v |-> None]
    ELSE [ok |-> TRUE, v |-> fld.default]

\* __init__: the fields are initialised in declaration order; the first
\* one that raises ends the construction and no node is returned
RECURSIVE InitFrom(_, _, _, _)
InitFrom(c, kw, i, acc) ==
    IF i > Len(Fields(c)) THEN [ok |-> TRUE, node |-> Node(c, acc)]
    ELSE LET r == InitField(Fields(c)[i], kw[i])
         IN  IF r.ok THEN InitFrom(c, kw, i + 1, Append(acc, r.v))
             ELSE [ok |-> FALSE, node |-> None]

\* c(**kw), with kw aligned to the declaration order of the fields
Construct(c, kw) == InitFrom(c, kw, 1, << >>)

\* __eq__: nodes of the same class with equal field tuples; AstChildren
\* compare element by element, in order
RECURSIVE ValEq(_, _)
RECURSIVE NodeEq(_, _)
RECURSIVE NodeEqBugIgnoresClass(_, _)

\* NodeEq, had the class of the other node not been compared
NodeEqBugIgnoresClass(a, b) ==
    /\ Len(a.attrs) = Len(b.attrs)
    /\ \A i \in 1..Len(a.attrs) : ValEq(a.attrs[i], b.attrs[i])

NodeEq(a, b) ==
    /\ a.cls = b.cls
    /\ \A i \in 1..Len(Fields(a.cls)) : ValEq(a.attrs[i], b.attrs[i])

ValEq(a, b) ==
    IF a.k # b.k THEN FALSE
    ELSE CASE a.k = "node" -> NodeEq(a, b)
           [] a.k = "children" ->
                /\ Len(a.items) = Len(b.items)
                /\ \A i \in 1..Len(a.items) : ValEq(a.items[i], b.items[i])
           [] OTHER -> a = b

---------------------------------------------------------------------------
(* Arguments supplied to the constructors *)

Strings == { Str("x"), Str("1x") }
Payloads == { Num(1), Num(2) }
Streams == { Stream(i) : i \in 1..MaxDeferred }

AtomExpr == Construct("AstValue", << Num(1) >>).node
AtomTarget == Construct("AstTargetIdentifier", << Str("x"), Omitted >>).node

\* a node of the admitted class, for the classes that are neither
\* expressions nor targets
AtomOf(of) ==
    IF "AstExpression" \in of THEN AtomExpr
    ELSE IF "AstTarget" \in of THEN AtomTarget
    ELSE IF "AstDictItem" \in of
         THEN Construct("AstDictItem", << AtomExpr, AtomExpr >>).node
    ELSE IF "AstDecorator" \in of
         THEN Construct("AstDecorator", << AtomExpr >>).node
    ELSE IF "AstFunctionSignatureArgument" \in of
         THEN Construct("AstFunctionSignatureArgument",
                        << Str("x"), Omitted >>).node
    ELSE IF "AstMacroLiteral" \in of
         THEN Construct("AstMacroLiteral", << Str("x") >>).node
    ELSE Construct("AstMacroArgument", << Str("x") >>).node

\* the values tried for one element of a given annotation: for a node
\* type, a node of that type and a node of another family (a constructor
\* call is not type checked)
Elements(of) ==
    IF of = {"str"} THEN Strings
    ELSE IF of = {"Any"} THEN Payloads
    ELSE IF of = {"bool"} THEN { Bool(TRUE), Bool(FALSE) }
    ELSE IF of = {"TokenStream"} THEN { Stream(1), Stream(2) }
    ELSE IF of = {"AstResourceLocation"} THEN { Ext("AstResourceLocation") }
    ELSE IF of = {"AstJson"} THEN { Ext("AstJson") }
    ELSE { AtomOf(of) } \cup
         (IF "AstTarget" \in of THEN { AtomExpr } ELSE { AtomTarget })

RECURSIVE SeqsUpTo(_, _)
SeqsUpTo(S, n) ==
    IF n = 0 THEN { << >> }
    ELSE LET shorter == SeqsUpTo(S, n - 1)
         IN  shorter \cup
             { Append(t, x) : t \in { u \in shorter : Len(u) = n - 1 },
                              x \in S }

\* the values tried for a field of a given annotation
Inputs(type) ==
    IF type.many
    THEN { Children(t) : t \in SeqsUpTo(Elements(type.of), MaxSeqLen) }
    ELSE Elements(type.of) \cup (IF type.opt THEN { None } ELSE { })

\* the keyword arguments tried for a class: each field omitted or given
\* one of its inputs; an inherited field is always given
RECURSIVE KwargsFrom(_, _)
KwargsFrom(c, i) ==
    IF i = 0 THEN { << >> }
    ELSE LET fld == Fields(c)[i]
             vals == Inputs(fld.type) \cup
                     (IF i <= Len(InheritedFields(c)) THEN { }
                      ELSE { Omitted })
         IN  { Append(t, v) : t \in KwargsFrom(c, i - 1), v \in vals }

Kwargs(c) == KwargsFrom(c, Len(Fields(c)))

---------------------------------------------------------------------------
(* Resolution of deferred regions by the pass that owns the tree *)

Consumers == { "parser", "rewriter" }

\* the subtree the parser produces from a retained stream
Parsed == Ext("AstRoot")

IsDeferred(v) == v.k = "node" /\ v.cls = "AstDeferredRoot"

\* the tree after the deferred root at position i is resolved: a new tree
\* holding the produced subtree in its place
ResolvedTree(t, i) == [t EXCEPT ![i] = Parsed]

---------------------------------------------------------------------------
(* State machine *)

Idle == [op |-> "none", ok |-> TRUE, arg |-> None]
NoCall == [cls |-> "none", kw |-> << >>]

Init ==
    /\ node = None
    /\ built = None
    /\ supplied = NoCall
    /\ other = None
    /\ last = Idle
    /\ tree = << >>
    /\ handed = [s \in 1..MaxDeferred |-> 0]
    /\ resolvedBy = [s \in 1..MaxDeferred |-> { }]
    /\ deferred = << >>

\* n = c(**kw)
ConstructNode(c, kw) ==
    /\ last = Idle
    /\ LET r == Construct(c, kw)
       IN  /\ node' = r.node
           /\ built' = r.node
           /\ last' = [op |-> "construct", ok |-> r.ok, arg |-> None]
    /\ supplied' = [cls |-> c, kw |-> kw]
    /\ other' = None
    /\ UNCHANGED treeVars

\* n.name = v: the __setattr__ of a frozen dataclass raises
\* FrozenInstanceError and assigns nothing
SetAttr(name, v) ==
    /\ name \in FieldNames(node.cls)
    /\ IF Frozen(node.cls)
       THEN /\ node' = node
            /\ last' = [op |-> "setattr", ok |-> FALSE, arg |-> None]
       ELSE /\ node' = [node EXCEPT !.attrs[FieldIndex(node.cls, name)] = v]
            /\ last' = [op |-> "setattr", ok |-> TRUE, arg |-> None]
    /\ UNCHANGED <<built, supplied, other>>
    /\ UNCHANGED treeVars

\* the classes that declare the same field names as c, in the same order
SameShape(c) ==
    { d \in Classes :
        /\ Len(Fields(d)) = Len(Fields(c))
        /\ \A i \in 1..Len(Fields(c)) : Fields(d)[i].name = Fields(c)[i].name }

\* the arguments of a second construction: those of the first, changed in
\* at most one position
Variations(c, kw) ==
    { kw } \cup
    { [kw EXCEPT ![i] = v] :
        i \in 1..Len(kw),
        v \in { Omitted } \cup
              UNION { Inputs(Fields(c)[j].type) : j \in 1..Len(kw) } }

\* m = c(**kw); n == m
CompareWith(c, kw) ==
    /\ LET r == Construct(c, kw)
       IN  /\ r.ok
           /\ other' = r.node
           /\ last' = [op |-> "eq", ok |-> NodeEq(node, r.node),
                       arg |-> [cls |-> c, kw |-> kw]]
    /\ UNCHANGED <<node, built, supplied>>
    /\ UNCHANGED treeVars

\* the last references to the nodes are dropped
Release ==
    /\ last # Idle
    /\ node' = None
    /\ built' = None
    /\ supplied' = NoCall
    /\ other' = None
    /\ last' = Idle
    /\ UNCHANGED treeVars

Next ==
    \/ \E c \in Classes : \E kw \in Kwargs(c) : ConstructNode(c, kw)
    \/ /\ node # None
       /\ \E i \in 1..Len(Fields(node.cls)) :
             \E v \in Inputs(Fields(node.cls)[i].type) :
                SetAttr(Fields(node.cls)[i].name, v)
    \/ /\ node # None
       /\ other = None
       /\ \E c \in SameShape(node.cls) :
             \E kw \in Variations(c, supplied.kw) : CompareWith(c, kw)
    \/ Release

Spec == Init /\ [][Next]_vars

\* the parser defers a region: a new AstDeferredRoot over its own copy of
\* the stream is appended to the tree
Defer ==
    /\ Len(deferred) < MaxDeferred
    /\ LET r == Construct("AstDeferredRoot", << Stream(Len(deferred) + 1) >>)
       IN  /\ tree' = Append(tree, r.node)
           /\ deferred' = Append(deferred, r.node)
    /\ UNCHANGED <<handed, resolvedBy>>
    /\ UNCHANGED nodeVars

\* a consumer finds a deferred root in the tree, hands its stream to the
\* parser and puts the produced subtree in its place
Resolve(p, i) ==
    /\ i \in 1..Len(tree)
    /\ IsDeferred(tree[i])
    /\ LET s == Attr(tree[i], "stream").id
       IN  /\ handed' = [handed EXCEPT ![s] = @ + 1]
           /\ resolvedBy' = [resolvedBy EXCEPT ![s] = @ \cup {p}]
    /\ tree' = ResolvedTree(tree, i)
    /\ UNCHANGED deferred
    /\ UNCHANGED nodeVars

\* tree[i].stream = v: the __setattr__ of a frozen dataclass raises
Retarget(i, v) ==
    /\ i \in 1..Len(tree)
    /\ IsDeferred(tree[i])
    /\ IF Frozen(tree[i].cls)
       THEN /\ tree' = tree
            /\ last' = [op |-> "setattr", ok |-> FALSE, arg |-> None]
       ELSE /\ tree' = [tree EXCEPT ![i].attrs[1] = v]
            /\ last' = [op |-> "setattr", ok |-> TRUE, arg |-> None]
    /\ UNCHANGED <<node, built, supplied, other>>
    /\ UNCHANGED <<handed, resolvedBy, deferred>>

NextDeferred ==
    \/ Defer
    \/ \E p \in Consumers : \E i \in 1..MaxDeferred : Resolve(p, i)
    \/ \E i \in 1..MaxDeferred : \E v \in Streams : Retarget(i, v)

SpecDeferred == Init /\ [][NextDeferred]_vars

---------------------------------------------------------------------------
(* The identifier pattern of bolt/pattern.py *)

\* the characters of the strings of the model, by class
Chars(s) ==
    CASE s = "x" -> << "letter" >>
      [] s = "1x" -> << "digit", "letter" >>

\* re.fullmatch(IDENTIFIER_PATTERN, s): word characters, the first of which
\* is not a digit
IsIdentifier(s) ==
    LET cs == Chars(s)
    IN  /\ Len(cs) > 0
        /\ cs[1] \in { "letter", "underscore" }
        /\ \A i \in 1..Len(cs) : cs[i] \in { "letter", "digit", "underscore" }

---------------------------------------------------------------------------
(* Properties *)

\* the positions of the latest constructor call that were not passed
OmittedAt == { i \in 1..Len(supplied.kw) : supplied.kw[i] = Omitted }

\* the positions of the called class declared with required_field()
RequiredAt ==
    { i \in 1..Len(Fields(supplied.cls)) :
        Fields(supplied.cls)[i].default = Required }

\* the nodes a value holds directly: itself, or the elements of a sequence
Held(v) ==
    IF v.k = "node" THEN { v }
    ELSE IF v.k = "children"
         THEN { v.items[i] : i \in { j \in 1..Len(v.items) :
                                       v.items[j].k = "node" } }
    ELSE { }

\* C1: a construction that omits a required attribute fails and yields no
\* node, wherever the attribute is declared; a node that exists has every
\* one of its attributes set.
C1_OmittedRequiredFails ==
    /\ (last.op = "construct" /\ OmittedAt \cap RequiredAt # { })
          => (~last.ok /\ node = None /\ built = None)
    /\ node # None =>
          /\ Len(node.attrs) = Len(Fields(node.cls))
          /\ \A i \in 1..Len(node.attrs) :
                node.attrs[i] # Omitted /\ node.attrs[i] # Required

\* an AstInterpolation call that passes the defaulted prefix and omits the
\* required converter declared after it has failed
C1_Witness ==
    /\ last.op = "construct"
    /\ ~last.ok
    /\ node = None
    /\ supplied.cls = "AstInterpolation"
    /\ supplied.kw[1] = Str("x")
    /\ supplied.kw[3] = Omitted
    /\ supplied.kw[4] # Omitted

\* C3: an assignment to an attribute of a constructed node fails and the
\* node keeps the attribute values it was constructed with, whatever
\* operations were applied to it.
C3_Immutable ==
    node # None =>
        /\ node = built
        /\ last.op = "setattr" => ~last.ok

C3_Witness ==
    /\ last.op = "setattr"
    /\ node # None
    /\ node.cls = "AstAssignment"
    /\ other # None

\* C4: a construction that passes every required attribute succeeds and
\* each passed attribute of the node is the passed value; a sequence keeps
\* its elements, their order and their repetitions.
C4_AttributesAsSupplied ==
    (last.op = "construct" /\ OmittedAt \cap RequiredAt = { }) =>
        /\ last.ok
        /\ node # None
        /\ node.cls = supplied.cls
        /\ \A i \in 1..Len(supplied.kw) :
              i \notin OmittedAt => node.attrs[i] = supplied.kw[i]

\* an AstCall passed the same argument twice holds it twice
C4_Witness ==
    /\ last.op = "construct"
    /\ last.ok
    /\ node.cls = "AstCall"
    /\ supplied.kw[2] = Children(<< AtomExpr, AtomExpr >>)
    /\ Attr(node, "arguments") = Children(<< AtomExpr, AtomExpr >>)

Reverse(t) == [i \in 1..Len(t) |-> t[Len(t) + 1 - i]]

\* the positions where the two constructor calls passed the same elements
\* in a different order
ReorderedAt ==
    { i \in 1..Len(supplied.kw) :
        /\ supplied.kw[i].k = "children"
        /\ last.arg.kw[i].k = "children"
        /\ last.arg.kw[i].items # supplied.kw[i].items
        /\ last.arg.kw[i].items = Reverse(supplied.kw[i].items) }

\* C5: n == m holds exactly when n and m are of the same class and their
\* attributes are equal position by position, sequences element by element
\* in order; a second construction with the elements of a sequence in
\* another order yields an unequal node.
C5_StructuralEquality ==
    last.op = "eq" =>
        /\ last.ok <=> (node.cls = other.cls /\ node.attrs = other.attrs)
        /\ ReorderedAt # { } => ~last.ok

\* two AstTuple nodes built from the same two items in opposite orders
\* have been compared
C5_Witness ==
    /\ last.op = "eq"
    /\ node.cls = "AstTuple"
    /\ other.cls = "AstTuple"
    /\ ReorderedAt = { 1 }
    /\ ~last.ok

\* the defaults the documentation gives
DocumentedDefaults ==
    { <<"AstSlice", "start", None>>, <<"AstSlice", "stop", None>>,
      <<"AstSlice", "step", None>>,
      <<"AstFunctionSignatureArgument", "default", None>>,
      <<"AstMacroMatchArgument", "match_argument_properties", None>>,
      <<"AstInterpolation", "prefix", None>>,
      <<"AstInterpolation", "unpack", None>>,
      <<"AstTargetIdentifier", "rebind", Bool(FALSE)>>,
      <<"AstFunctionSignature", "decorators", Children(<< >>)>> }

Documented(c, i) ==
    { d \in DocumentedDefaults : d[1] = c /\ d[2] = Fields(c)[i].name }

\* C6: a construction that omits only attributes with a documented default
\* succeeds and each omitted attribute reads as documented; name and
\* arguments of AstFunctionSignature cannot be omitted, and an empty
\* arguments sequence that is passed is accepted and stored.
C6_DocumentedDefaults ==
    last.op = "construct" =>
        /\ (\A i \in OmittedAt : Documented(supplied.cls, i) # { }) =>
              /\ last.ok
              /\ \A i \in OmittedAt :
                    \A d \in Documented(supplied.cls, i) :
                       node.attrs[i] = d[3]
        /\ (supplied.cls = "AstFunctionSignature"
               /\ OmittedAt \cap { 2, 3 } # { }) => ~last.ok
        /\ (supplied.cls = "AstFunctionSignature" /\ 2 \notin OmittedAt
               /\ supplied.kw[3] = Children(<< >>)) =>
              /\ last.ok
              /\ Attr(node, "arguments") = Children(<< >>)

\* AstFunctionSignature(name="x", arguments=[]) has been constructed
C6_Witness ==
    /\ last.op = "construct"
    /\ last.ok
    /\ supplied.cls = "AstFunctionSignature"
    /\ supplied.kw = << Omitted, Str("x"), Children(<< >>) >>
    /\ Attr(node, "decorators") = Children(<< >>)

\* isinstance(n, t) for one of the admitted types
Conforms(n, of) == \E t \in of : IsSubclass(n.cls, t)

Disjoint ==
    \A c \in Classes :
        ~(IsSubclass(c, "AstExpression") /\ IsSubclass(c, "AstTarget"))

\* C7, as claimed: the two families share no class, and no attribute
\* annotated with one family ever holds a node of the other.
C7_NeverAccepted ==
    /\ Disjoint
    /\ node # None =>
          \A i \in 1..Len(node.attrs) :
             \A n \in Held(node.attrs[i]) :
                LET of == Fields(node.cls)[i].type.of
                IN  /\ ("AstExpression" \in of /\ "AstTarget" \notin of)
                          => ~IsSubclass(n.cls, "AstTarget")
                    /\ ("AstTarget" \in of /\ "AstExpression" \notin of)
                          => ~IsSubclass(n.cls, "AstExpression")

\* C7, amended: the two families share no class; the constructor stores a
\* node of the other family where one family is annotated, and that node
\* is not an instance of any annotated type.
C7_DisjointFamilies ==
    /\ Disjoint
    /\ (last.op = "construct" /\ last.ok) =>
          \A i \in 1..Len(node.attrs) :
             \A n \in Held(node.attrs[i]) :
                LET of == Fields(node.cls)[i].type.of
                IN  /\ ("AstExpression" \in of /\ "AstTarget" \notin of
                           /\ IsSubclass(n.cls, "AstTarget"))
                          => ~Conforms(n, of)
                    /\ ("AstTarget" \in of /\ "AstExpression" \notin of
                           /\ IsSubclass(n.cls, "AstExpression"))
                          => ~Conforms(n, of)

\* an AstAssignment whose target is an expression and whose value is a
\* target has been constructed
C7_Witness ==
    /\ last.op = "construct"
    /\ last.ok
    /\ node.cls = "AstAssignment"
    /\ Attr(node, "target") = AtomExpr
    /\ Attr(node, "value") = AtomTarget

\* C8, as claimed: no AstMacroArgument node holds a value that does not
\* match the identifier pattern.
C8_RejectedAtConstruction ==
    (node # None /\ node.cls = "AstMacroArgument") =>
        IsIdentifier(Attr(node, "value").s)

\* C8, amended: AstMacroArgument carries the identifier pattern as the
\* class attribute regex, which is no field; its constructor takes any
\* string as value and stores it unchanged.
C8_PatternIsClassAttribute ==
    /\ ClassAttr("AstMacroArgument", "regex") = Str("IDENTIFIER_PATTERN")
    /\ ClassAttr("AstMacroArgument", "parser") = Str("bolt_macro_argument")
    /\ ClassAttr("AstMacroLiteral", "regex") = None
    /\ "regex" \notin FieldNames("AstMacroArgument")
    /\ (last.op = "construct" /\ supplied.cls = "AstMacroArgument") =>
          /\ last.ok
          /\ Attr(node, "value") = supplied.kw[1]

\* an AstMacroArgument whose value starts with a digit has been constructed
C8_Witness ==
    /\ last.op = "construct"
    /\ last.ok
    /\ node.cls = "AstMacroArgument"
    /\ ~IsIdentifier(Attr(node, "value").s)

Variants(b) ==
    CASE b = "AstExpression" ->
            { "AstExpressionBinary", "AstExpressionUnary", "AstValue",
              "AstIdentifier", "AstFormatString", "AstTuple", "AstList",
              "AstDict", "AstAttribute", "AstLookup", "AstCall" }
      [] b = "AstTarget" ->
            { "AstTargetIdentifier", "AstTargetUnpack", "AstTargetAttribute",
              "AstTargetItem" }
      [] b = "AstMacroMatch" ->
            { "AstMacroMatchLiteral", "AstMacroMatchArgument" }

FamilyBases == { "AstExpression", "AstTarget", "AstMacroMatch" }

\* C10, as claimed: no node is of a bare family base class.
C10_BasesNeverInstantiated ==
    node # None => node.cls \notin FamilyBases

\* C10, amended: the family bases are classes without fields whose
\* construction succeeds and yields a node without attributes; every
\* other node of a family is of one of the listed classes.
C10_BasesAreConstructible ==
    /\ (last.op = "construct" /\ supplied.cls \in FamilyBases) =>
          (last.ok /\ node.cls = supplied.cls)
    /\ node # None =>
          \A b \in FamilyBases :
             IsSubclass(node.cls, b) =>
                \/ node.cls = b /\ node.attrs = << >>
                \/ node.cls \in Variants(b)

\* a bare AstTarget has been constructed
C10_Witness ==
    /\ last.op = "construct"
    /\ last.ok
    /\ node # None
    /\ node.cls = "AstTarget"

=============================================================================
